---- MODULE Spec2Model ----
(***************************************************************************)
(* A model of the MSDS crawler of src/scout.py (scout, find_pdfs and the   *)
(* helpers they call) and of the route of src/main.py that starts it.      *)
(*                                                                         *)
(* Strings are modelled structurally.  A text is a sequence of words, a    *)
(* word is a sequence of atoms (pieces of a word that the model never      *)
(* splits), so that matching on a word boundary and matching a substring   *)
(* are different things.  A URL is a record of its scheme, its netloc and  *)
(* the pieces of its last path segment.  A path or a file name is the      *)
(* sequence of the pieces it is formatted from.                            *)
(*                                                                         *)
(* scout.py calls urlparse and urljoin without importing them; the model   *)
(* gives them the meaning of urllib.parse, which is what the calls are     *)
(* written against.                                                        *)
(***************************************************************************)
EXTENDS Integers, Sequences, FiniteSets, TLC

VARIABLES
    cas,                    \* scout's argument cas (None when a name is given)
    name,                   \* scout's argument name (None when a CAS number is given)
    pc,                     \* position of scout: "start", "seeds", "done"
    nseeds,                 \* search results consumed so far by scout's loop
    stack,                  \* call stack of find_pdfs, innermost call first
    report_list,            \* scout's report_list
    URL_VISIT_COUNT,        \* the dict made for the current seed, shared by its recursion
    DOMAIN_VISIT_COUNT,     \* the dict made for the current seed, shared by its recursion
    DOWNLOADED_FILES_COUNT, \* the module global that download_pdf increments
    TEMP_FOLDER,            \* files of the unverified folder: name -> content
    PDFS_FOLDER,            \* files of the verified folder: name -> content
    LOGS_FOLDER,            \* files of the logs folder: name -> content
    returned,               \* what scout returned
    served,                 \* links served so far, the last one, and the choices spent
    seed0,                  \* observation: report length and download count at seed start
    ev,                     \* observation: what the last step did
    vText, vCas, vName, vResult, \* verify_pdf applied to one text (SpecVerify)
    now,                    \* the clock, in seconds
    runs,                   \* the calls of scout that run side by side (SpecRuns)
    owner                   \* observation: the run that last wrote each file (SpecRuns)

vars == <<cas, name, pc, nseeds, stack, report_list, URL_VISIT_COUNT,
          DOMAIN_VISIT_COUNT, DOWNLOADED_FILES_COUNT, TEMP_FOLDER, PDFS_FOLDER,
          LOGS_FOLDER, returned, served, seed0, ev, vText, vCas, vName, vResult,
          now, runs, owner>>

crawlVars == <<cas, name, pc, nseeds, stack, report_list, URL_VISIT_COUNT,
               DOMAIN_VISIT_COUNT, DOWNLOADED_FILES_COUNT, TEMP_FOLDER, PDFS_FOLDER,
               LOGS_FOLDER, returned, served, seed0, ev>>

verifyVars == <<vText, vCas, vName, vResult>>

runsVars == <<now, runs, owner>>

-----------------------------------------------------------------------------
(* Bounds of the model *)

MaxLinks == 10      \* links the web serves during one run, over all pages
MaxChoices == 3     \* what the world decides during one run: each search result, each
                    \* change from one served link to a different one, and each
                    \* failure (network, parse, filesystem) counts for one
MaxTextLen == 5     \* words of a text given to verify_pdf in SpecVerify
MaxRunSeeds == 2    \* search results of each of the runs of SpecRuns
MaxClock == 1       \* seconds that pass in SpecRuns

(* Program constants *)

MAX_URL_VISITS == 5
MAX_DOMAIN_VISITS == 10
DOWNLOAD_LIMIT == 5
SEED_DEPTH == 2

-----------------------------------------------------------------------------
(* Values *)

None == << <<"None">> >>        \* Python's None where a text is expected
NoPath == <<>>                  \* Python's None where a path or a base URL is expected

Last(s) == s[Len(s)]

Get(d, k, default) == IF k \in DOMAIN d THEN d[k] ELSE default

Put(d, k, v) == [x \in DOMAIN d \cup {k} |-> IF x = k THEN v ELSE d[x]]

Del(d, k) == [x \in DOMAIN d \ {k} |-> d[x]]

-----------------------------------------------------------------------------
(* The web the model crawls *)

Url(host, file) == [scheme |-> "https", netloc |-> host, file |-> file]

NoUrl == Url("", <<>>)

PageA == Url("a.com", <<"index">>)          \* https://a.com/index      an HTML page
DocXA == Url("a.com", <<"x", ".pdf">>)      \* https://a.com/x.pdf      a data sheet
DocXB == Url("b.com", <<"x">>)              \* https://b.com/x          a related sheet
DocYA == Url("a.com", <<"y">>)              \* https://a.com/y          some other PDF
Wiki  == Url("en.Wikipedia.org", <<"wiki">>) \* https://en.Wikipedia.org/wiki

Urls == {PageA, DocXA, DocXB, DocYA, Wiki}

Hosts == {u.netloc : u \in Urls}

\* The content type a URL is served with.
ContentType(u) == IF u \in {DocXA, DocXB, DocYA} THEN "application/pdf" ELSE "text/html"

CasNumber == << <<"106-38-7">> >>                  \* "106-38-7"
ChemName  == << <<"benzene">>, <<"bromo">> >>      \* "benzene bromo"

\* The text of the first pages of the PDF a URL serves.
PdfText(u) ==
    CASE u = DocXA -> << <<"Safety">>, <<"data">>, <<"sheet">>, <<"106-38-7">>,
                         <<"Benzene">>, <<"bromo">> >>
      [] u = DocXB -> << <<"safety">>, <<"data">>, <<"sheet">>, <<"benzene", "s">>,
                         <<"1", "106-38-7">> >>
      [] OTHER     -> << <<"data">>, <<"sheet">>, <<"106-38-7">>, <<"benzene">>,
                         <<"bromo">> >>

-----------------------------------------------------------------------------
(* Strings *)

\* str.lower() on an atom
LowerAtom(a) ==
    CASE a = "Safety" -> "safety"
      [] a = "Benzene" -> "benzene"
      [] a = "en.Wikipedia.org" -> "en.wikipedia.org"
      [] OTHER -> a

LowerWord(w) == [i \in 1..Len(w) |-> LowerAtom(w[i])]

\* sub occurs in w as a run of consecutive atoms
IsInfix(sub, w) ==
    \E i \in 0..(Len(w) - Len(sub)) : \A j \in 1..Len(sub) : w[i + j] = sub[j]

\* the substrings of a lower-cased URL that are entries of SKIP_URLS
SkipSubstrings(atom) ==
    IF atom = "en.wikipedia.org" THEN {"wikipedia"} ELSE {}

\* a part of SKIP_URLS (src/scout.py:25-162)
SKIP_URLS == {"wikipedia", "x.com", "home", "about", "google"}

\* a denylist check that forgets url.lower()
in_skip_urls_as_written(url) ==
    \E skip_url \in SKIP_URLS :
        \/ skip_url \in SkipSubstrings(url.netloc)
        \/ \E i \in 1..Len(url.file) : skip_url \in SkipSubstrings(url.file[i])

\* any(skip_url in url.lower() for skip_url in SKIP_URLS)
in_skip_urls(url) ==
    \E skip_url \in SKIP_URLS :
        \/ skip_url \in SkipSubstrings(LowerAtom(url.netloc))
        \/ \E i \in 1..Len(url.file) : skip_url \in SkipSubstrings(LowerAtom(url.file[i]))

\* urlparse(url).netloc
netloc(url) == url.netloc

\* f"{urlparse(url).scheme}://{urlparse(url).netloc}", as the pieces split("/") gives
base_of(url) == <<url.scheme, "", url.netloc>>

\* base_url.split("/")[2]
provider_of(base_url) == base_url[3]

-----------------------------------------------------------------------------
(* verify_pdf *)

\* re.compile(rf'\b{escaped_sequence}\b', re.IGNORECASE).search(text): the words of
\* the sequence occur in the text as whole consecutive words, whatever the case
search_anchored(sequence, text) ==
    \E i \in 0..(Len(text) - Len(sequence)) :
        \A j \in 1..Len(sequence) : LowerWord(text[i + j]) = LowerWord(sequence[j])

\* re.compile('|'.join(map(re.escape, name.split())), re.IGNORECASE).search(text):
\* one of the tokens occurs somewhere in the text, whatever the case
search_tokens(tokens, text) ==
    \E t \in 1..Len(tokens) : \E i \in 1..Len(text) :
        IsInfix(LowerWord(tokens[t]), LowerWord(text[i]))

SafetyDataSheet == << <<"safety">>, <<"data">>, <<"sheet">> >>

\* cas or name
cas_or_name(c, n) == IF c # None /\ c # <<>> THEN c ELSE n

\* a verify_pdf that tries the tokens of whichever identifier it was given
verify_pdf_any_identifier(text, c, n) ==
    IF text = None THEN "False"
    ELSE IF search_anchored(cas_or_name(c, n), text) /\ search_anchored(SafetyDataSheet, text)
         THEN "same"
    ELSE IF search_anchored(SafetyDataSheet, text) /\ search_tokens(cas_or_name(c, n), text)
         THEN "similar"
    ELSE "False"

\* a verify_pdf that takes the identifier alone for an exact match
verify_pdf_identifier_only(text, c, n) ==
    IF text = None THEN "False"
    ELSE IF search_anchored(cas_or_name(c, n), text) THEN "same"
    ELSE IF n # None /\ search_anchored(SafetyDataSheet, text) /\ search_tokens(n, text)
         THEN "similar"
    ELSE "False"

verify_pdf(text, c, n) ==
    IF text = None THEN "False"
    ELSE IF search_anchored(cas_or_name(c, n), text) /\ search_anchored(SafetyDataSheet, text)
         THEN "same"
    ELSE IF n # None /\ search_anchored(SafetyDataSheet, text) /\ search_tokens(n, text)
         THEN "similar"
    ELSE "False"

-----------------------------------------------------------------------------
(* Files *)

\* os.path.join(folder, file_name)
path_join(folder, file_name) == <<folder, "/">> \o file_name

\* the words of an identifier, written out with single spaces
RECURSIVE Written(_)
Written(text) ==
    IF Len(text) = 0 THEN <<>>
    ELSE IF Len(text) = 1 THEN text[1]
    ELSE text[1] \o <<" ">> \o Written(Tail(text))

\* f"{cas or name}_{provider}.pdf" for counter 0 and
\* f"{cas or name}_{provider}_{counter}.pdf" above
verified_name(c, n, provider, counter) ==
    IF counter = 0
    THEN Written(cas_or_name(c, n)) \o <<"_", provider, ".pdf">>
    ELSE Written(cas_or_name(c, n)) \o <<"_", provider, "_", ToString(counter), ".pdf">>

\* a rename_and_move_file without the loop
first_counter(folder, c, n, provider, counter) == counter

\* the loop of rename_and_move_file: the first counter whose name is free in `folder`
RECURSIVE free_counter(_, _, _, _, _)
free_counter(folder, c, n, provider, counter) ==
    IF path_join("verified", verified_name(c, n, provider, counter)) \in DOMAIN folder
    THEN free_counter(folder, c, n, provider, counter + 1)
    ELSE counter

\* rename_and_move_file(file_path, PDFS_FOLDER, cas, name, provider): the new location
\* (NoPath when os.rename fails) and the two folders afterwards
rename_and_move_file(temp, pdfs, file_path, c, n, provider, ok) ==
    LET new_location ==
            path_join("verified", verified_name(c, n, provider,
                                                free_counter(pdfs, c, n, provider, 0)))
    IN  IF ok /\ file_path \in DOMAIN temp
        THEN [path |-> new_location,
              temp |-> Del(temp, file_path),
              pdfs |-> Put(pdfs, new_location, temp[file_path])]
        ELSE [path |-> NoPath, temp |-> temp, pdfs |-> pdfs]

\* what the n-th download of the process wrote, fetched from url
Bytes(url, n) == [url |-> url, n |-> n]

\* url.split("/")[-1], with ".pdf" appended when it does not end with it
file_name_of(url) ==
    IF Last(url.file) = ".pdf" THEN url.file ELSE url.file \o <<".pdf">>

\* a file that open(file_path, 'wb') made and nothing was written to
EmptyFile == Bytes(NoUrl, 0)

\* a download_pdf that counts the requests instead of the files written
download_pdf_counting_requests(temp, count, url, response, read) ==
    LET file_path == path_join("unverified", file_name_of(url))
    IN  IF response # "application/pdf"
        THEN [path |-> NoPath, temp |-> temp, count |-> count + 1]
        ELSE IF ~read
        THEN [path |-> NoPath, temp |-> Put(temp, file_path, EmptyFile),
              count |-> count + 1]
        ELSE [path |-> file_path, temp |-> Put(temp, file_path, Bytes(url, count + 1)),
              count |-> count + 1]

\* download_pdf(session, url): the path of the file written, the unverified folder and
\* the global count afterwards.  response is the content type of the answer ("error"
\* when the request fails or the status is bad) and read says whether reading the
\* body succeeds.  The path is NoPath when the request fails, when the content type is
\* not application/pdf, and when reading the body fails, which happens after the file
\* was opened for writing.
download_pdf(temp, count, url, response, read) ==
    LET file_path == path_join("unverified", file_name_of(url))
    IN  IF response # "application/pdf"
        THEN [path |-> NoPath, temp |-> temp, count |-> count]
        ELSE IF ~read
        THEN [path |-> NoPath, temp |-> Put(temp, file_path, EmptyFile), count |-> count]
        ELSE [path |-> file_path, temp |-> Put(temp, file_path, Bytes(url, count + 1)),
              count |-> count + 1]

\* is_pdf(url): head is the content type of the HEAD response, "error" when it fails
is_pdf(url, head) ==
    IF Last(url.file) = ".pdf" THEN TRUE ELSE head = "application/pdf"

\* extract_text_from_pdf(pdf_path): the text of the file's content, None when it fails
extract_text_from_pdf(temp, pdf_path, ok) ==
    IF ok /\ pdf_path \in DOMAIN temp THEN PdfText(temp[pdf_path].url) ELSE None

\* an add_report that puts the new entry first
add_report_at_front(list, c, n, filepath, verified, provider, url) ==
    <<[cas |-> c, name |-> n, provider |-> provider, verified |-> verified,
       filepath |-> filepath, url |-> url]>> \o list

\* add_report(report_list, cas, name, filepath, verified, provider, url)
add_report(list, c, n, filepath, verified, provider, url) ==
    Append(list, [cas |-> c, name |-> n, provider |-> provider, verified |-> verified,
                  filepath |-> filepath, url |-> url])

-----------------------------------------------------------------------------
(* find_pdfs *)

Frame(url, depth, base_url, config_params) ==
    [url |-> url, depth |-> depth, base_url |-> base_url,
     config_params |-> config_params, pc |-> "start"]

\* the config_params scout builds for one search result (the two dicts and the report
\* list it also holds are the variables URL_VISIT_COUNT, DOMAIN_VISIT_COUNT, report_list)
seed_params ==
    [k \in {"max_url_visits", "max_domain_visits", "download_limit",
            "downloaded_files_count"} |->
        CASE k = "max_url_visits" -> MAX_URL_VISITS
          [] k = "max_domain_visits" -> MAX_DOMAIN_VISITS
          [] k = "download_limit" -> DOWNLOAD_LIMIT
          [] OTHER -> 0]

\* a scout that hands the dict of the search result before to the next one
url_visit_count_of_run == URL_VISIT_COUNT

\* "url_visit_count": {} and "domain_visit_count": {} of that config_params
seed_url_visit_count == <<>>
seed_domain_visit_count == <<>>

\* the locals find_pdfs extracts from config_params
local_downloaded(config_params) == Get(config_params, "DOWNLODED_FILES_COUNT", 0)
local_download_limit(config_params) == Get(config_params, "download_limit", 0)
local_max_url_visits(config_params) == Get(config_params, "max_url_visits", 0)
local_max_domain_visits(config_params) == Get(config_params, "max_domain_visits", 0)

\* the params find_pdfs builds for the call it makes for a link
child_params(config_params) ==
    [k \in {"max_url_visits", "max_domain_visits", "download_limit",
            "downloaded_files_count"} |->
        CASE k = "max_url_visits" -> local_max_url_visits(config_params)
          [] k = "max_domain_visits" -> local_max_domain_visits(config_params)
          [] k = "download_limit" -> local_download_limit(config_params)
          [] OTHER -> local_downloaded(config_params)]

\* a find_pdfs that lets depth 0 through
depth_or_budget_stop_below_zero(depth, config_params) ==
    depth < 0 \/ local_downloaded(config_params) >= local_download_limit(config_params)

\* depth <= 0 or DOWNLOADED_FILES_COUNT >= DOWNLOAD_LIMIT
depth_or_budget_stop(depth, config_params) ==
    depth <= 0 \/ local_downloaded(config_params) >= local_download_limit(config_params)

\* a find_pdfs that compares the domain's count with > instead of >=
domain_capped_late(counts, domain, config_params) ==
    Get(counts, domain, 0) > local_max_domain_visits(config_params)

\* DOMAIN_VISIT_COUNT.get(domain, 0) >= MAX_DOMAIN_VISITS
domain_capped(counts, domain, config_params) ==
    Get(counts, domain, 0) >= local_max_domain_visits(config_params)

\* a find_pdfs that compares the URL's count with > instead of >=
url_capped_late(counts, url, config_params) ==
    Get(counts, url, 0) > local_max_url_visits(config_params)

\* URL_VISIT_COUNT.get(url, 0) >= MAX_URL_VISITS
url_capped(counts, url, config_params) ==
    Get(counts, url, 0) >= local_max_url_visits(config_params)

\* why find_pdfs returns before it records a visit; "" when it goes on
skip_reason(f, url_counts, domain_counts) ==
    IF depth_or_budget_stop(f.depth, f.config_params) THEN "depth or budget"
    ELSE IF in_skip_urls(f.url) THEN "denylist"
    ELSE IF domain_capped(domain_counts, netloc(f.url), f.config_params) THEN "domain"
    ELSE IF url_capped(url_counts, f.url, f.config_params) THEN "url"
    ELSE ""

\* a PDF branch that reports an exact document whether or not it was moved
pdf_branch_reporting_unmoved(temp, pdfs, count, list, url, base_url, c, n, o) ==
    LET got == download_pdf(temp, count, url,
                            IF o.get THEN ContentType(url) ELSE "error", o.read)
        status == verify_pdf(extract_text_from_pdf(got.temp, got.path, o.extract), c, n)
        provider_name == provider_of(base_url)
        moved == rename_and_move_file(got.temp, pdfs, got.path, c, n, provider_name,
                                      o.move)
        end(op, st) == [op |-> op, status |-> st, temp |-> got.temp, pdfs |-> pdfs,
                        count |-> got.count, list |-> list, path |-> got.path,
                        raised |-> FALSE]
    IN  IF got.path = NoPath THEN end("download failed", "")
        ELSE IF status = "same"
        THEN IF moved.path # NoPath
             THEN [end("stored", status) EXCEPT
                       !.temp = moved.temp, !.pdfs = moved.pdfs, !.path = moved.path,
                       !.list = add_report(list, c, n, moved.path, TRUE,
                                           provider_name, url)]
             ELSE [end("move failed", status) EXCEPT
                       !.list = add_report(list, c, n, moved.path, TRUE,
                                           provider_name, url)]
        ELSE IF status = "similar"
        THEN [end("kept", status) EXCEPT
                  !.list = add_report(list, c, n, got.path, FALSE, provider_name, url)]
        ELSE IF o.remove
        THEN [end("removed", status) EXCEPT !.temp = Del(got.temp, got.path)]
        ELSE [end("remove failed", status) EXCEPT !.raised = TRUE]

\* what the PDF branch of find_pdfs does for url: o says which of the request, the
\* reading of its body, the text extraction, os.rename and os.remove succeed
pdf_branch(temp, pdfs, count, list, url, base_url, c, n, o) ==
    LET got == download_pdf(temp, count, url,
                            IF o.get THEN ContentType(url) ELSE "error", o.read)
        status == verify_pdf(extract_text_from_pdf(got.temp, got.path, o.extract), c, n)
        provider_name == provider_of(base_url)
        moved == rename_and_move_file(got.temp, pdfs, got.path, c, n, provider_name,
                                      o.move)
        end(op, st) == [op |-> op, status |-> st, temp |-> got.temp, pdfs |-> pdfs,
                        count |-> got.count, list |-> list, path |-> got.path,
                        raised |-> FALSE]
    IN  IF got.path = NoPath THEN end("download failed", "")
        ELSE IF status = "same"
        THEN IF moved.path # NoPath
             THEN [end("stored", status) EXCEPT
                       !.temp = moved.temp, !.pdfs = moved.pdfs, !.path = moved.path,
                       !.list = add_report(list, c, n, moved.path, TRUE,
                                           provider_name, url)]
             ELSE end("move failed", status)
        ELSE IF status = "similar"
        THEN [end("kept", status) EXCEPT
                  !.list = add_report(list, c, n, got.path, FALSE, provider_name, url)]
        ELSE IF o.remove
        THEN [end("removed", status) EXCEPT !.temp = Del(got.temp, got.path)]
        ELSE [end("remove failed", status) EXCEPT !.raised = TRUE]

-----------------------------------------------------------------------------
(* save_report *)

\* json.dumps of one report entry: None is written null, a bool true or false, a str
\* in quotes
json_str(v) == [t |-> "string", s |-> v]
json_opt(v) == IF v = None THEN [t |-> "null"] ELSE json_str(v)
json_dumps_entry(e) ==
    [cas |-> json_opt(e.cas), name |-> json_opt(e.name), provider |-> json_str(e.provider),
     verified |-> [t |-> IF e.verified THEN "true" ELSE "false"],
     filepath |-> json_str(e.filepath), url |-> json_str(e.url)]

json_dumps(list) == [i \in 1..Len(list) |-> json_dumps_entry(list[i])]

\* json.loads of what json.dumps wrote
json_value(j) ==
    CASE j.t = "null" -> None
      [] j.t = "true" -> TRUE
      [] j.t = "false" -> FALSE
      [] OTHER -> j.s

json_loads(json_string) ==
    [i \in 1..Len(json_string) |->
        [k \in DOMAIN json_string[i] |-> json_value(json_string[i][k])]]

\* datetime.now().strftime("%Y-%m-%d_%H-%M-%S") + ".json" in the logs folder
report_filename(t) == path_join("logs", <<ToString(t), ".json">>)

\* a report file that was opened for writing and holds nothing
EmptyReport == <<>>

\* a save_report that answers with the list also when the file could not be written
save_report_ignoring_failure(list, logs, t, how) ==
    IF list = <<>>
    THEN [value |-> [kind |-> "dict", entries |-> <<>>], logs |-> logs]
    ELSE [value |-> [kind |-> "list", entries |-> json_loads(json_dumps(list))],
          logs |-> IF how = "written" THEN Put(logs, report_filename(t), json_dumps(list))
                   ELSE logs]

\* save_report(report_list): the value returned and the files of the logs folder
\* afterwards.  t is the time of the call; how says whether the file is written, cannot
\* be opened, or is opened and then cannot be written.
save_report(list, logs, t, how) ==
    IF list = <<>>
    THEN [value |-> [kind |-> "dict", entries |-> <<>>], logs |-> logs]
    ELSE CASE how = "written"
                -> [value |-> [kind |-> "list", entries |-> json_loads(json_dumps(list))],
                    logs |-> Put(logs, report_filename(t), json_dumps(list))]
           [] how = "open failed"
                -> [value |-> [kind |-> "dict", entries |-> <<>>], logs |-> logs]
           [] OTHER
                -> [value |-> [kind |-> "dict", entries |-> <<>>],
                    logs |-> Put(logs, report_filename(t), EmptyReport)]

-----------------------------------------------------------------------------
(* The run *)

Top == stack[1]

At(p) == stack # <<>> /\ Top.pc = p

Event(op, url, path) == [op |-> op, url |-> url, path |-> path, status |-> ""]

\* the outcomes an operation may have: failures are bounded by MaxChoices
Oks == IF served.spent < MaxChoices THEN {TRUE, FALSE} ELSE {TRUE}

Fault(ok) == [served EXCEPT !.spent = IF ok THEN @ ELSE @ + 1]

OldFile == Bytes(Url("old", <<>>), 0)      \* the content of a file an earlier run stored

CrawlInit ==
    /\ \E id \in {<<CasNumber, None>>, <<None, ChemName>>, <<None, None>>} :
          /\ cas = id[1]
          /\ name = id[2]
          /\ PDFS_FOLDER =
                Put(<<>>, path_join("verified", verified_name(id[1], id[2], "a.com", 2)),
                    OldFile)
    /\ pc = "start"
    /\ nseeds = 0
    /\ stack = <<>>
    /\ report_list = <<>>
    /\ URL_VISIT_COUNT = <<>>
    /\ DOMAIN_VISIT_COUNT = <<>>
    /\ DOWNLOADED_FILES_COUNT = 0
    /\ TEMP_FOLDER = <<>>
    /\ LOGS_FOLDER = <<>>
    /\ returned = [kind |-> "pending", entries |-> <<>>]
    /\ served = [links |-> 0, last |-> NoUrl, spent |-> 0]
    /\ seed0 = [reports |-> 0, downloaded |-> 0]
    /\ ev = Event("init", NoUrl, NoPath)

VerifyIdle ==
    /\ vText = None
    /\ vCas = None
    /\ vName = None
    /\ vResult = "idle"

RunsIdle ==
    /\ now = 0
    /\ runs = <<>>
    /\ owner = <<>>

Init == CrawlInit /\ VerifyIdle /\ RunsIdle

\* `if cas is None and name is None` of scout
no_input(c, n) == c = None /\ n = None

\* scout up to its loop over the search results; without an identifier it returns at
\* once, and a bare return gives None
ScoutStart ==
    /\ pc = "start"
    /\ IF no_input(cas, name)
       THEN /\ pc' = "done"
            /\ returned' = [kind |-> "none", entries |-> <<>>]
            /\ ev' = Event("no input", NoUrl, NoPath)
       ELSE /\ pc' = "seeds"
            /\ returned' = returned
            /\ ev' = Event("search", NoUrl, NoPath)
    /\ report_list' = <<>>
    /\ UNCHANGED <<cas, name, nseeds, stack, URL_VISIT_COUNT, DOMAIN_VISIT_COUNT,
                   DOWNLOADED_FILES_COUNT, TEMP_FOLDER, PDFS_FOLDER, LOGS_FOLDER,
                   served, seed0>>
    /\ UNCHANGED verifyVars
    /\ UNCHANGED runsVars

\* one turn of scout's loop: the next search result gets new config_params and the
\* top-level call of find_pdfs
NextSeed ==
    /\ pc = "seeds"
    /\ stack = <<>>
    /\ served.spent < MaxChoices
    /\ \E result \in Urls :
          /\ stack' = <<Frame(result, SEED_DEPTH, NoPath, seed_params)>>
          /\ ev' = Event("seed", result, NoPath)
    /\ nseeds' = nseeds + 1
    /\ URL_VISIT_COUNT' = seed_url_visit_count
    /\ DOMAIN_VISIT_COUNT' = seed_domain_visit_count
    /\ seed0' = [reports |-> Len(report_list), downloaded |-> DOWNLOADED_FILES_COUNT]
    /\ served' = [served EXCEPT !.spent = @ + 1]
    /\ UNCHANGED <<cas, name, pc, report_list, DOWNLOADED_FILES_COUNT, TEMP_FOLDER,
                   PDFS_FOLDER, LOGS_FOLDER, returned>>
    /\ UNCHANGED verifyVars
    /\ UNCHANGED runsVars

\* the search raises, at the call or while scout's loop asks it for the next result:
\* neither is inside a try, so the exception leaves scout
SearchFails ==
    /\ pc = "seeds"
    /\ stack = <<>>
    /\ served.spent < MaxChoices
    /\ pc' = "done"
    /\ returned' = [kind |-> "raised", entries |-> <<>>]
    /\ served' = Fault(FALSE)
    /\ ev' = Event("search failed", NoUrl, NoPath)
    /\ UNCHANGED <<cas, name, nseeds, stack, report_list, URL_VISIT_COUNT,
                   DOMAIN_VISIT_COUNT, DOWNLOADED_FILES_COUNT, TEMP_FOLDER, PDFS_FOLDER,
                   LOGS_FOLDER, seed0>>
    /\ UNCHANGED verifyVars
    /\ UNCHANGED runsVars

\* the search results are exhausted: scout saves the report and returns
EndSeeds ==
    /\ pc = "seeds"
    /\ stack = <<>>
    /\ \E how \in {"written", "open failed", "write failed"} :
          LET saved == save_report(report_list, LOGS_FOLDER, now, how)
          IN  /\ how # "written" => served.spent < MaxChoices /\ report_list # <<>>
              /\ returned' = saved.value
              /\ LOGS_FOLDER' = saved.logs
              /\ served' = Fault(how = "written")
              /\ ev' = [Event("return", NoUrl, NoPath) EXCEPT !.status = how]
    /\ pc' = "done"
    /\ UNCHANGED <<cas, name, nseeds, stack, report_list, URL_VISIT_COUNT,
                   DOMAIN_VISIT_COUNT, DOWNLOADED_FILES_COUNT, TEMP_FOLDER, PDFS_FOLDER,
                   seed0>>
    /\ UNCHANGED verifyVars
    /\ UNCHANGED runsVars

\* find_pdfs returns before recording a visit
Skip ==
    /\ At("start")
    /\ skip_reason(Top, URL_VISIT_COUNT, DOMAIN_VISIT_COUNT) # ""
    /\ stack' = Tail(stack)
    /\ ev' = Event("skipped", Top.url, NoPath)
    /\ UNCHANGED <<cas, name, pc, nseeds, report_list, URL_VISIT_COUNT,
                   DOMAIN_VISIT_COUNT, DOWNLOADED_FILES_COUNT, TEMP_FOLDER, PDFS_FOLDER,
                   LOGS_FOLDER, returned, served, seed0>>
    /\ UNCHANGED verifyVars
    /\ UNCHANGED runsVars

\* a find_pdfs that forgets to count a visit
count_visit_lost(counts, key) == counts

\* counts[key] = counts.get(key, 0) + 1
count_visit(counts, key) == Put(counts, key, Get(counts, key, 0) + 1)

\* find_pdfs records the visit, fixes base_url and probes the URL with is_pdf
Visit ==
    /\ At("start")
    /\ skip_reason(Top, URL_VISIT_COUNT, DOMAIN_VISIT_COUNT) = ""
    /\ URL_VISIT_COUNT' = count_visit(URL_VISIT_COUNT, Top.url)
    /\ DOMAIN_VISIT_COUNT' = count_visit(DOMAIN_VISIT_COUNT, netloc(Top.url))
    /\ \E ok \in Oks :
          LET head == IF ok THEN ContentType(Top.url) ELSE "error"
              base_url == IF Top.base_url = NoPath THEN base_of(Top.url) ELSE Top.base_url
          IN  /\ ok \/ Last(Top.url.file) # ".pdf"
              /\ stack' = <<[Top EXCEPT
                                !.base_url = base_url,
                                !.pc = IF is_pdf(Top.url, head) THEN "download"
                                       ELSE "scrape"]>> \o Tail(stack)
              /\ served' = Fault(ok)
    /\ ev' = Event("visited", Top.url, NoPath)
    /\ UNCHANGED <<cas, name, pc, nseeds, report_list, DOWNLOADED_FILES_COUNT,
                   TEMP_FOLDER, PDFS_FOLDER, LOGS_FOLDER, returned, seed0>>
    /\ UNCHANGED verifyVars
    /\ UNCHANGED runsVars

\* a scout whose loop ends at the first exception of a search result
on_exception_leave_loop(p) == "done"

\* where scout goes on after `except Exception` of its loop: the loop's next turn
on_exception(p) == p

Failures(o) == Cardinality({k \in DOMAIN o : ~o[k]})

Outcomes ==
    {o \in [get : BOOLEAN, read : BOOLEAN, extract : BOOLEAN, move : BOOLEAN,
             remove : BOOLEAN] :
        Failures(o) <= MaxChoices - served.spent}

\* the operations that o lets fail are operations that `op` went through
Consulted(o, op) ==
    /\ ~o.get => o.read
    /\ op = "download failed" => o.extract /\ o.move /\ o.remove
    /\ op \in {"stored", "move failed"} => o.remove
    /\ op = "kept" => o.move /\ o.remove
    /\ op \in {"removed", "remove failed"} => o.move

\* the PDF branch of find_pdfs: download, verify, then store, keep or delete the file.
\* An exception of os.remove leaves find_pdfs and every caller up to scout's loop.
Download ==
    /\ At("download")
    /\ \E o \in Outcomes :
          \E r \in {pdf_branch(TEMP_FOLDER, PDFS_FOLDER, DOWNLOADED_FILES_COUNT,
                              report_list, Top.url, Top.base_url, cas, name, o)} :
              /\ Consulted(o, r.op)
              /\ TEMP_FOLDER' = r.temp
              /\ PDFS_FOLDER' = r.pdfs
              /\ DOWNLOADED_FILES_COUNT' = r.count
              /\ report_list' = r.list
              /\ stack' = IF r.raised THEN <<>> ELSE Tail(stack)
              /\ pc' = IF r.raised THEN on_exception(pc) ELSE pc
              /\ ev' = [Event(r.op, Top.url, r.path) EXCEPT !.status = r.status]
              /\ served' = [served EXCEPT !.spent = @ + Failures(o)]
    /\ UNCHANGED <<cas, name, nseeds, URL_VISIT_COUNT, DOMAIN_VISIT_COUNT,
                   LOGS_FOLDER, returned, seed0>>
    /\ UNCHANGED verifyVars
    /\ UNCHANGED runsVars

\* scrape_urls: the page's links arrive, or the empty list when the request or the
\* parse fails; the loop then takes them one by one
Scrape ==
    /\ At("scrape")
    /\ \E ok \in Oks :
          /\ stack' = IF ok /\ ContentType(Top.url) = "text/html"
                      THEN <<[Top EXCEPT !.pc = "loop"]>> \o Tail(stack)
                      ELSE Tail(stack)
          /\ served' = Fault(ok)
    /\ ev' = Event("scraped", Top.url, NoPath)
    /\ UNCHANGED <<cas, name, pc, nseeds, report_list, URL_VISIT_COUNT,
                   DOMAIN_VISIT_COUNT, DOWNLOADED_FILES_COUNT, TEMP_FOLDER, PDFS_FOLDER,
                   LOGS_FOLDER, returned, seed0>>
    /\ UNCHANGED verifyVars
    /\ UNCHANGED runsVars

\* the loop over the links calls find_pdfs for the next link
NextLink ==
    /\ At("loop")
    /\ served.links < MaxLinks
    /\ \E link \in Urls :
          /\ link # served.last => served.spent < MaxChoices
          /\ served' = [served EXCEPT
                           !.links = @ + 1, !.last = link,
                           !.spent = IF link # served.last THEN @ + 1 ELSE @]
          /\ stack' = <<Frame(link, Top.depth - 1, Top.base_url,
                              child_params(Top.config_params))>> \o stack
          /\ ev' = Event("link", link, NoPath)
    /\ UNCHANGED <<cas, name, pc, nseeds, report_list, URL_VISIT_COUNT,
                   DOMAIN_VISIT_COUNT, DOWNLOADED_FILES_COUNT, TEMP_FOLDER, PDFS_FOLDER,
                   LOGS_FOLDER, returned, seed0>>
    /\ UNCHANGED verifyVars
    /\ UNCHANGED runsVars

\* the loop over the links ends and find_pdfs returns
EndLoop ==
    /\ At("loop")
    /\ stack' = Tail(stack)
    /\ ev' = Event("expanded", Top.url, NoPath)
    /\ UNCHANGED <<cas, name, pc, nseeds, report_list, URL_VISIT_COUNT,
                   DOMAIN_VISIT_COUNT, DOWNLOADED_FILES_COUNT, TEMP_FOLDER, PDFS_FOLDER,
                   LOGS_FOLDER, returned, served, seed0>>
    /\ UNCHANGED verifyVars
    /\ UNCHANGED runsVars

Next ==
    \/ ScoutStart
    \/ NextSeed
    \/ SearchFails
    \/ EndSeeds
    \/ Skip
    \/ Visit
    \/ Download
    \/ Scrape
    \/ NextLink
    \/ EndLoop

Spec == Init /\ [][Next]_vars

\* the event loop goes on with the run as long as it has a step to take: every await of
\* the run ends, with an answer or with the timeout of its request
SpecFair == Spec /\ WF_vars(Next)

-----------------------------------------------------------------------------
(* verify_pdf on its own *)

Words == {<<"Safety">>, <<"data">>, <<"sheet">>, <<"benzene">>, <<"bromo">>,
          <<"benzene", "s">>, <<"106-38-7">>, <<"1", "106-38-7">>}

Texts == {None} \cup UNION {[1..n -> Words] : n \in 0..MaxTextLen}

VerifyInit ==
    /\ vText \in Texts
    /\ \E id \in {<<CasNumber, None>>, <<None, ChemName>>} :
          /\ vCas = id[1]
          /\ vName = id[2]
    /\ vResult = "pending"
    /\ RunsIdle
    /\ cas = None
    /\ name = None
    /\ pc = "done"
    /\ nseeds = 0
    /\ stack = <<>>
    /\ report_list = <<>>
    /\ URL_VISIT_COUNT = <<>>
    /\ DOMAIN_VISIT_COUNT = <<>>
    /\ DOWNLOADED_FILES_COUNT = 0
    /\ TEMP_FOLDER = <<>>
    /\ PDFS_FOLDER = <<>>
    /\ LOGS_FOLDER = <<>>
    /\ returned = [kind |-> "pending", entries |-> <<>>]
    /\ served = [links |-> 0, last |-> NoUrl, spent |-> 0]
    /\ seed0 = [reports |-> 0, downloaded |-> 0]
    /\ ev = Event("init", NoUrl, NoPath)

VerifyText ==
    /\ vResult = "pending"
    /\ vResult' = verify_pdf(vText, vCas, vName)
    /\ UNCHANGED <<vText, vCas, vName>>
    /\ UNCHANGED crawlVars
    /\ UNCHANGED runsVars

SpecVerify == VerifyInit /\ [][VerifyText]_vars

-----------------------------------------------------------------------------
(* Two calls of scout in one process *)

\* run_scout is a coroutine of the server's event loop: a second request is served
\* while the first waits at an await.  SpecRuns has two calls of scout whose search
\* results are documents; a run is suspended while it waits for the answer to the GET
\* of download_pdf, and everything find_pdfs does from the answer to its return (it
\* has no await of its own) is one step.  The waits inside download_pdf after the
\* file is opened are not split further.
Runs == {1, 2}

Documents == {DocXA, DocXB, DocYA}

AllOk == [get |-> TRUE, read |-> TRUE, extract |-> TRUE, move |-> TRUE, remove |-> TRUE]

CrawlIdle ==
    /\ cas = None
    /\ name = None
    /\ pc = "done"
    /\ nseeds = 0
    /\ stack = <<>>
    /\ report_list = <<>>
    /\ URL_VISIT_COUNT = <<>>
    /\ DOMAIN_VISIT_COUNT = <<>>
    /\ returned = [kind |-> "pending", entries |-> <<>>]
    /\ served = [links |-> 0, last |-> NoUrl, spent |-> 0]
    /\ seed0 = [reports |-> 0, downloaded |-> 0]
    /\ ev = Event("init", NoUrl, NoPath)

RunsInit ==
    /\ CrawlIdle
    /\ VerifyIdle
    /\ runs \in [Runs -> {[cas |-> id[1], name |-> id[2], pc |-> "seeds", url |-> NoUrl,
                            report_list |-> <<>>, nseeds |-> 0,
                            returned |-> [kind |-> "pending", entries |-> <<>>]] :
                              id \in {<<CasNumber, None>>, <<None, ChemName>>}}]
    /\ now = 0
    /\ owner = [temp |-> <<>>, pdfs |-> <<>>, logs |-> <<>>]
    /\ DOWNLOADED_FILES_COUNT = 0
    /\ TEMP_FOLDER = <<>>
    /\ PDFS_FOLDER = <<>>
    /\ LOGS_FOLDER = <<>>

\* the run that last wrote each file of a folder, after run r changed the folder
Owners(was, old, new, r) ==
    [p \in DOMAIN new |-> IF p \in DOMAIN old /\ new[p] = old[p] THEN was[p] ELSE r]

\* scout's loop takes the next search result and calls find_pdfs, which passes its
\* checks, probes the URL and waits for the answer to its GET
RunSeed(r) ==
    /\ runs[r].pc = "seeds"
    /\ runs[r].nseeds < MaxRunSeeds
    /\ \E result \in Documents :
          /\ skip_reason(Frame(result, SEED_DEPTH, NoPath, seed_params),
                         seed_url_visit_count, seed_domain_visit_count) = ""
          /\ is_pdf(result, ContentType(result))
          /\ runs' = [runs EXCEPT ![r].pc = "get", ![r].url = result,
                                  ![r].nseeds = @ + 1]
    /\ UNCHANGED <<now, owner, DOWNLOADED_FILES_COUNT, TEMP_FOLDER, PDFS_FOLDER,
                   LOGS_FOLDER>>
    /\ UNCHANGED <<cas, name, pc, nseeds, stack, report_list, URL_VISIT_COUNT,
                   DOMAIN_VISIT_COUNT, returned, served, seed0, ev>>
    /\ UNCHANGED verifyVars

\* the answer arrives: the file is written, verified and stored, kept or deleted, and
\* find_pdfs returns to scout's loop
RunDownload(r) ==
    /\ runs[r].pc = "get"
    /\ LET b == pdf_branch(TEMP_FOLDER, PDFS_FOLDER, DOWNLOADED_FILES_COUNT,
                           runs[r].report_list, runs[r].url, base_of(runs[r].url),
                           runs[r].cas, runs[r].name, AllOk)
       IN  /\ TEMP_FOLDER' = b.temp
           /\ PDFS_FOLDER' = b.pdfs
           /\ DOWNLOADED_FILES_COUNT' = b.count
           /\ runs' = [runs EXCEPT ![r].pc = "seeds", ![r].report_list = b.list]
           /\ owner' = [owner EXCEPT
                           !.temp = Owners(@, TEMP_FOLDER, b.temp, r),
                           !.pdfs = Owners(@, PDFS_FOLDER, b.pdfs, r)]
    /\ UNCHANGED <<now, LOGS_FOLDER>>
    /\ UNCHANGED <<cas, name, pc, nseeds, stack, report_list, URL_VISIT_COUNT,
                   DOMAIN_VISIT_COUNT, returned, served, seed0, ev>>
    /\ UNCHANGED verifyVars

\* the search results are exhausted: the run saves its report and returns
RunReturn(r) ==
    /\ runs[r].pc = "seeds"
    /\ LET saved == save_report(runs[r].report_list, LOGS_FOLDER, now, "written")
       IN  /\ LOGS_FOLDER' = saved.logs
           /\ runs' = [runs EXCEPT ![r].pc = "done", ![r].returned = saved.value]
           /\ owner' = [owner EXCEPT !.logs = Owners(@, LOGS_FOLDER, saved.logs, r)]
    /\ UNCHANGED <<now, DOWNLOADED_FILES_COUNT, TEMP_FOLDER, PDFS_FOLDER>>
    /\ UNCHANGED <<cas, name, pc, nseeds, stack, report_list, URL_VISIT_COUNT,
                   DOMAIN_VISIT_COUNT, returned, served, seed0, ev>>
    /\ UNCHANGED verifyVars

\* a second passes
Tick ==
    /\ now < MaxClock
    /\ now' = now + 1
    /\ UNCHANGED <<runs, owner, DOWNLOADED_FILES_COUNT, TEMP_FOLDER, PDFS_FOLDER,
                   LOGS_FOLDER>>
    /\ UNCHANGED <<cas, name, pc, nseeds, stack, report_list, URL_VISIT_COUNT,
                   DOMAIN_VISIT_COUNT, returned, served, seed0, ev>>
    /\ UNCHANGED verifyVars

RunsNext ==
    \/ \E r \in Runs : RunSeed(r)
    \/ \E r \in Runs : RunDownload(r)
    \/ \E r \in Runs : RunReturn(r)
    \/ Tick

SpecRuns == RunsInit /\ [][RunsNext]_vars

-----------------------------------------------------------------------------
(* Claims *)

\* successful downloads of the current seed's sub-crawl
SeedDownloads == DOWNLOADED_FILES_COUNT - seed0.downloaded

\* the path download_pdf writes url to
TempPath(url) == path_join("unverified", file_name_of(url))

\* the files written during the current seed's sub-crawl that are now in the verified
\* folder, or in the unverified folder with a report entry of this sub-crawl
SeedStoredFiles ==
    {p \in DOMAIN PDFS_FOLDER : PDFS_FOLDER[p].n > seed0.downloaded}
    \cup {p \in DOMAIN TEMP_FOLDER :
            /\ TEMP_FOLDER[p].n > seed0.downloaded
            /\ \E i \in (seed0.reports + 1)..Len(report_list) :
                   report_list[i].filepath = p}

C3_VisitCaps ==
    /\ \A u \in DOMAIN URL_VISIT_COUNT : URL_VISIT_COUNT[u] <= MAX_URL_VISITS
    /\ \A d \in DOMAIN DOMAIN_VISIT_COUNT : DOMAIN_VISIT_COUNT[d] <= MAX_DOMAIN_VISITS

\* a URL is at its cap, and the call for another URL, itself below its cap, was
\* skipped because its domain is at the cap
C3_Witness ==
    /\ ev.op = "skipped"
    /\ Get(URL_VISIT_COUNT, ev.url, 0) < MAX_URL_VISITS
    /\ Get(DOMAIN_VISIT_COUNT, netloc(ev.url), 0) = MAX_DOMAIN_VISITS
    /\ \E u \in DOMAIN URL_VISIT_COUNT : URL_VISIT_COUNT[u] = MAX_URL_VISITS
    /\ Len(stack) = 1

\* C4: a call of find_pdfs with depth <= 0 goes no further than its first check (no
\* probe, download, scrape, ledger update or recursion); the seed's call has depth
\* SEED_DEPTH and each call for a link one less than its caller, so only the seed URL
\* and the links of the seed's page are ever probed or downloaded.
C4_DepthStops ==
    [][/\ (At("start") /\ Top.depth <= 0)
            => /\ stack' = Tail(stack)
               /\ UNCHANGED <<URL_VISIT_COUNT, DOMAIN_VISIT_COUNT, DOWNLOADED_FILES_COUNT,
                              TEMP_FOLDER, PDFS_FOLDER, report_list>>
       /\ \A i \in 1..Len(stack) :
             LET level == Len(stack) - i
             IN  /\ stack[i].depth = SEED_DEPTH - level
                 /\ stack[i].pc # "start" => stack[i].depth > 0 /\ level <= 1]_vars

\* the call for a link of a page that the seed's page links to was skipped, with the
\* ledger as the page's own visit left it
C4_Witness ==
    /\ ev.op = "skipped"
    /\ Len(stack) = 2
    /\ stack[1].depth = 1
    /\ stack[1].pc = "loop"
    /\ ~in_skip_urls(ev.url)
    /\ Get(URL_VISIT_COUNT, ev.url, 0) < MAX_URL_VISITS
    /\ Get(DOMAIN_VISIT_COUNT, netloc(ev.url), 0) < MAX_DOMAIN_VISITS

\* C5: in a run for a CAS number verify_pdf never answers "similar": every document is
\* exact or no match, so the run appends no report entry with verified = FALSE.
C5_CasNeverSimilar ==
    cas # None =>
        /\ ev.status # "similar"
        /\ \A i \in 1..Len(report_list) : report_list[i].verified

\* a run for a CAS number downloaded the sheet that names another substance and whose
\* text has the CAS number inside a longer number, and deleted it
C5_Witness ==
    /\ cas # None
    /\ ev.url = DocXB
    /\ ev.op = "removed"
    /\ ev.status = "False"

\* the match facts of a text
IdentifierMatches == search_anchored(IF vCas # None THEN vCas ELSE vName, vText)
PhraseMatches == search_anchored(SafetyDataSheet, vText)
SomeTokenMatches ==
    \E t \in 1..Len(vName) : \E i \in 1..Len(vText) :
        IsInfix(LowerWord(vName[t]), LowerWord(vText[i]))

\* C6: the verdict is a function of three match facts: exact iff the identifier and
\* the phrase "safety data sheet" both match; similar iff not exact, the identifier is
\* a name, the phrase matches and some token of the name matches; no match otherwise,
\* also when the text could not be extracted.
C6_Verdict ==
    vResult \notin {"idle", "pending"} =>
        LET exact == vText # None /\ IdentifierMatches /\ PhraseMatches
            similar == /\ vText # None
                       /\ ~exact
                       /\ vName # None
                       /\ PhraseMatches
                       /\ SomeTokenMatches
        IN  vResult = IF exact THEN "same" ELSE IF similar THEN "similar" ELSE "False"

\* a text that has the phrase and a token of the name inside a longer word, but not
\* the name, was found similar
C6_Witness ==
    /\ vResult = "similar"
    /\ ~IdentifierMatches
    /\ \A i \in 1..Len(vText) : \A t \in 1..Len(vName) : vText[i] # vName[t]

\* the path of the verified file with this provider and counter
VerifiedPath(provider, counter) ==
    path_join("verified", verified_name(cas, name, provider, counter))

\* C7: storing an exact document never overwrites a file of the verified folder: the
\* files that were there stay as they are, and the new file gets a name that was free,
\* the first free one of {identifier}_{provider}.pdf, _1, _2, ...
C7_NoOverwrite ==
    [][/\ \A p \in DOMAIN PDFS_FOLDER :
              p \in DOMAIN PDFS_FOLDER' /\ PDFS_FOLDER'[p] = PDFS_FOLDER[p]
       /\ \A p \in DOMAIN PDFS_FOLDER' \ DOMAIN PDFS_FOLDER :
              \E provider \in Hosts : \E k \in 0..Cardinality(DOMAIN PDFS_FOLDER) :
                  /\ p = VerifiedPath(provider, k)
                  /\ \A j \in 0..(k - 1) : VerifiedPath(provider, j) \in DOMAIN PDFS_FOLDER
       /\ ev'.op = "stored" /\ ev' # ev =>
              ev'.path \in DOMAIN PDFS_FOLDER' \ DOMAIN PDFS_FOLDER]_vars

\* three exact documents of one provider were stored beside the file of an earlier
\* run: as the first name, as _1 and, _2 being taken, as _3
C7_Witness ==
    /\ \A k \in 0..3 : VerifiedPath("a.com", k) \in DOMAIN PDFS_FOLDER
    /\ PDFS_FOLDER[VerifiedPath("a.com", 2)] = OldFile
    /\ Cardinality({PDFS_FOLDER[VerifiedPath("a.com", k)] : k \in 0..3}) = 4

\* a step of the PDF branch that wrote the downloaded file
Downloaded == At("download") /\ DOWNLOADED_FILES_COUNT' = DOWNLOADED_FILES_COUNT + 1

\* the outcomes of a downloaded candidate for the verdicts exact and similar, and for
\* an exact document whose move failed
StoredOrKept ==
    LET p == TempPath(Top.url)
        provider == provider_of(Top.base_url)
    IN  \/ /\ ev'.status = "same"
           /\ p \notin DOMAIN TEMP_FOLDER'
           /\ \E q \in DOMAIN PDFS_FOLDER' \ DOMAIN PDFS_FOLDER :
                 /\ PDFS_FOLDER'[q] = Bytes(Top.url, DOWNLOADED_FILES_COUNT')
                 /\ report_list' = add_report(report_list, cas, name, q, TRUE,
                                              provider, Top.url)
        \/ /\ ev'.status = "same"
           /\ ev'.op = "move failed"
           /\ p \in DOMAIN TEMP_FOLDER'
           /\ PDFS_FOLDER' = PDFS_FOLDER
           /\ report_list' = report_list
        \/ /\ ev'.status = "similar"
           /\ p \in DOMAIN TEMP_FOLDER'
           /\ TEMP_FOLDER'[p] = Bytes(Top.url, DOWNLOADED_FILES_COUNT')
           /\ PDFS_FOLDER' = PDFS_FOLDER
           /\ report_list' = add_report(report_list, cas, name, p, FALSE,
                                        provider, Top.url)

C9_DenylistFirst ==
    [][(At("start") /\ Top.url = Wiki)
          => /\ stack' = Tail(stack)
             /\ UNCHANGED <<URL_VISIT_COUNT, DOMAIN_VISIT_COUNT, DOWNLOADED_FILES_COUNT,
                            TEMP_FOLDER, PDFS_FOLDER, report_list>>]_vars

\* the call for a link to the denylisted URL on the seed's page was skipped, with
\* depth, budget and both visit counts still allowing a visit
C9_Witness ==
    /\ ev.op = "skipped"
    /\ ev.url = Wiki
    /\ Len(stack) = 1
    /\ Top.pc = "loop"
    /\ Wiki \notin DOMAIN URL_VISIT_COUNT
    /\ netloc(Wiki) \notin DOMAIN DOMAIN_VISIT_COUNT

\* C10: when the download of a URL classified as PDF fails, download_pdf hands no
\* document to find_pdfs (the most it leaves is the empty file it had opened), no
\* report entry is appended, the download count stays, and find_pdfs returns to the
\* caller's loop, which goes on with the remaining links.
C10_FailedDownload ==
    [][(At("download") /\ ev'.op = "download failed")
          => /\ UNCHANGED <<DOWNLOADED_FILES_COUNT, PDFS_FOLDER, report_list>>
             /\ \/ TEMP_FOLDER' = TEMP_FOLDER
                \/ TEMP_FOLDER' = Put(TEMP_FOLDER, TempPath(Top.url), EmptyFile)
             /\ ev'.path = NoPath
             /\ stack' = Tail(stack)
             /\ stack' # <<>> => stack'[1].pc = "loop"]_vars

\* the download of a link of the seed's page failed and the page's loop is about to
\* take the next link
C10_Witness ==
    /\ ev.op = "download failed"
    /\ Len(stack) = 1
    /\ Top.pc = "loop"
    /\ served.links < MaxLinks

C12_NeverRaises == (cas # None \/ name # None) => returned.kind # "raised"

\* C13: when the sub-crawl of one search result raises, scout's loop goes on with the
\* next result; no step of the loop removes or changes an entry of report_list, and a
\* report that is saved holds all of them.
C13_SeedFailureCaught ==
    [][/\ (At("download") /\ ev'.op = "remove failed")
            => /\ pc' = "seeds"
               /\ stack' = <<>>
               /\ report_list' = report_list
       /\ pc = "seeds"
            => /\ Len(report_list') >= Len(report_list)
               /\ SubSeq(report_list', 1, Len(report_list)) = report_list
       /\ (pc = "seeds" /\ returned'.kind = "list")
            => returned'.entries = report_list]_vars

\* the run returned a report with the entry of a document stored after the sub-crawl
\* of an earlier search result had raised: the rejected file that could not be deleted
\* is older than the stored one
C13_Witness ==
    /\ pc = "done"
    /\ returned.kind = "list"
    /\ returned.entries # <<>>
    /\ TempPath(DocYA) \in DOMAIN TEMP_FOLDER
    /\ TEMP_FOLDER[TempPath(DocYA)].url = DocYA
    /\ \E i \in 1..Len(returned.entries) :
          LET p == returned.entries[i].filepath
          IN  /\ p \in DOMAIN PDFS_FOLDER
              /\ PDFS_FOLDER[p].n > TEMP_FOLDER[TempPath(DocYA)].n

\* C14: the call scout makes for a search result starts with empty URL and domain
\* dicts and a download count of 0 (both the count scout puts into config_params and
\* the count find_pdfs reads from it), whatever the sub-crawls before it did; only
\* report_list is carried over.
C14_SeedStartsFresh ==
    [][(pc = "seeds" /\ stack = <<>> /\ stack' # <<>>)
          => /\ URL_VISIT_COUNT' = <<>>
             /\ DOMAIN_VISIT_COUNT' = <<>>
             /\ stack'[1].config_params["downloaded_files_count"] = 0
             /\ local_downloaded(stack'[1].config_params) = 0
             /\ report_list' = report_list]_vars

\* DOWNLOAD_LIMIT documents were downloaded and reported in the sub-crawl of the first
\* search result; the second search result is visited, as the first visit of its URL,
\* downloaded and stored
C14_Witness ==
    /\ nseeds = 2
    /\ seed0.downloaded >= DOWNLOAD_LIMIT
    /\ seed0.reports >= DOWNLOAD_LIMIT
    /\ ev.op = "stored"
    /\ URL_VISIT_COUNT[ev.url] = 1

\* C15: scout called with neither a CAS number nor a name returns at once with an
\* empty report: no search, no call of find_pdfs, no file written.
C15_EmptyReport ==
    [][(pc = "start" /\ cas = None /\ name = None)
          => /\ pc' = "done"
             /\ ev'.op = "no input"
             /\ nseeds' = 0
             /\ stack' = <<>>
             /\ UNCHANGED <<TEMP_FOLDER, PDFS_FOLDER, LOGS_FOLDER, DOWNLOADED_FILES_COUNT>>
             /\ returned'.kind \in {"dict", "list"}
             /\ returned'.entries = <<>>]_vars

\* C16: the calls of find_pdfs of one search result are nested, never side by side:
\* every call but the innermost waits in its loop over the links, a call for a link
\* starts only from the innermost call's loop and leaves the waiting calls as they
\* are, and each report entry is appended, after all the earlier ones, by the
\* innermost call for the URL it downloaded.
C16_DepthFirst ==
    [][/\ \A i \in 2..Len(stack) : stack[i].pc = "loop"
       /\ (stack # <<>> /\ Len(stack') > Len(stack))
            => /\ Top.pc = "loop"
               /\ Tail(stack') = stack
               /\ stack'[1].pc = "start"
       /\ (pc = "seeds" /\ report_list' # report_list)
            => /\ Len(report_list') = Len(report_list) + 1
               /\ SubSeq(report_list', 1, Len(report_list)) = report_list
               /\ Last(report_list').url = Top.url
               /\ stack' = Tail(stack)]_vars

\* the page of a search result has had a document of an earlier link reported and is
\* now at a later link, whose call is about to start
C16_Witness ==
    /\ Len(stack) = 2
    /\ Top.pc = "start"
    /\ stack[2].pc = "loop"
    /\ ev.op = "link"
    /\ served.links >= 2
    /\ Len(report_list) > seed0.reports
    /\ Last(report_list).url # Top.url

\* what scout returns for an empty report_list, and for any list when the report file
\* cannot be written: the empty dict
EmptyResult == [kind |-> "dict", entries |-> <<>>]

\* C17 as stated: the value scout returns is the sequence of the entries appended in
\* the run: for one entry or more it is those entries, equal and in the same order,
\* and one report file is written; for none it is the empty result and no file is
\* written.
C17_ReturnsEntries ==
    [][(pc = "seeds" /\ pc' = "done" /\ returned'.kind # "raised")
          => IF report_list # <<>>
             THEN /\ returned' = [kind |-> "list", entries |-> report_list]
                  /\ Cardinality(DOMAIN LOGS_FOLDER') = Cardinality(DOMAIN LOGS_FOLDER) + 1
                  /\ LOGS_FOLDER'[report_filename(now)] = json_dumps(report_list)
             ELSE /\ returned' = EmptyResult
                  /\ LOGS_FOLDER' = LOGS_FOLDER]_vars

\* C17, amended: the same when the report file is written; when it cannot be opened
\* or written, scout returns the empty result although there are entries, and the
\* logs folder gains at most an empty file.
C17_ReturnsEntriesIfWritten ==
    [][(pc = "seeds" /\ pc' = "done" /\ returned'.kind # "raised")
          => IF report_list # <<>> /\ ev'.status = "written"
             THEN /\ returned' = [kind |-> "list", entries |-> report_list]
                  /\ Cardinality(DOMAIN LOGS_FOLDER') = Cardinality(DOMAIN LOGS_FOLDER) + 1
                  /\ LOGS_FOLDER'[report_filename(now)] = json_dumps(report_list)
             ELSE /\ returned' = EmptyResult
                  /\ \/ LOGS_FOLDER' = LOGS_FOLDER
                     \/ /\ report_list # <<>>
                        /\ LOGS_FOLDER' = Put(LOGS_FOLDER, report_filename(now),
                                              EmptyReport)]_vars

\* a run for a name returned two entries, the first verified and the second not, and
\* its report file holds them
C17_Witness ==
    /\ pc = "done"
    /\ returned.kind = "list"
    /\ Len(returned.entries) = 2
    /\ returned.entries[1].verified
    /\ ~returned.entries[2].verified
    /\ returned.entries[1].cas = None
    /\ returned.entries = report_list
    /\ json_loads(LOGS_FOLDER[report_filename(now)]) = report_list

\* the files of a folder that run r did not write are there, unchanged, after a step
Untouched(r, was, old, new) ==
    \A p \in DOMAIN old : was[p] # r => p \in DOMAIN new /\ new[p] = old[p]

RECURSIVE Total(_)
\* the sum of the counts of a dict
Total(counts) ==
    IF DOMAIN counts = {} THEN 0
    ELSE LET k == CHOOSE x \in DOMAIN counts : TRUE
         IN  counts[k] + Total([x \in DOMAIN counts \ {k} |-> counts[x]])

\* no count of the dict is lost or lowered
Grown(old, new) == \A k \in DOMAIN old : k \in DOMAIN new /\ new[k] >= old[k]

\* C19: the sub-crawl of every search result ends.  A call of find_pdfs that is not
\* skipped adds exactly one to the count of its URL and to the count of its domain
\* before it probes, downloads or recurses; within a sub-crawl no count goes down; the
\* calls are nested SEED_DEPTH + 1 deep at most, and the visits of a sub-crawl are
\* bounded by the visit limits.
C19_Terminates ==
    /\ (stack # <<>>) ~> (stack = <<>>)
    /\ [][/\ (At("start") /\ Len(stack') = Len(stack))
               => /\ URL_VISIT_COUNT' =
                        Put(URL_VISIT_COUNT, Top.url, Get(URL_VISIT_COUNT, Top.url, 0) + 1)
                  /\ DOMAIN_VISIT_COUNT' =
                        Put(DOMAIN_VISIT_COUNT, netloc(Top.url),
                            Get(DOMAIN_VISIT_COUNT, netloc(Top.url), 0) + 1)
          /\ (stack # <<>> /\ ~At("start"))
               => UNCHANGED <<URL_VISIT_COUNT, DOMAIN_VISIT_COUNT>>
          /\ stack # <<>>
               => /\ Grown(URL_VISIT_COUNT, URL_VISIT_COUNT')
                  /\ Grown(DOMAIN_VISIT_COUNT, DOMAIN_VISIT_COUNT')
          /\ Len(stack') <= SEED_DEPTH + 1
          /\ Total(URL_VISIT_COUNT') = Total(DOMAIN_VISIT_COUNT')
          /\ Total(URL_VISIT_COUNT') <= MAX_URL_VISITS * Cardinality(Urls)
          /\ Total(DOMAIN_VISIT_COUNT') <= MAX_DOMAIN_VISITS * Cardinality(Hosts)]_vars

\* the sub-crawl of a page that links to itself has ended: the page was visited as the
\* search result and again as its own link, and the links of that second visit were
\* skipped at depth 0
C19_Witness ==
    /\ stack = <<>>
    /\ pc = "seeds"
    /\ ev.op = "expanded"
    /\ ev.url = PageA
    /\ Get(URL_VISIT_COUNT, PageA, 0) = 2
    /\ served.links >= 2

FileAt(p) ==
    IF p \in DOMAIN TEMP_FOLDER THEN TEMP_FOLDER[p]
    ELSE IF p \in DOMAIN PDFS_FOLDER THEN PDFS_FOLDER[p]
    ELSE EmptyFile

====
